---- MODULE Spec2Model ----
(***************************************************************************)
(* Gnoke Gas persistence core (db-core.js), data access layer              *)
(* (db-sales.js) and one-time legacy importer (migrate.js).                *)
(*                                                                         *)
(* JavaScript is single threaded: code between two awaits is one atomic    *)
(* step.  Every API call is a record in `calls`; its pc names the await it *)
(* is suspended on.  Storage (IndexedDB), the seed fetch and the legacy    *)
(* store are the environment: their completions are separate steps that    *)
(* resume the suspended call.                                              *)
(***************************************************************************)
EXTENDS Integers, Sequences, FiniteSets, TLC

\* ---------------------------------------------------------------- bounds
\* API calls issued in one behaviour of the engine specifications.
MaxCalls == 3
\* Statements inside one transaction(fn).
MaxOps == 2
\* Calendar dates are 1..MaxDate (YYYY-MM-DD strings compare like numbers).
MaxDate == 2
\* Importer runs in one behaviour.
MaxRuns == 2
\* Sales a Day holds at the start of the sales specifications.
MaxSales == 3
\* Lines of a CSV text handed to _parseCSV in the parser specification.
MaxLines == 3

\* ------------------------------------------------------------- constants
MIGRATION_DONE_KEY == "migration_v1_done"
REQUIRED_TABLES == <<"company", "days", "sales", "settings">>

None == <<>>
Some(x) == <<x>>
NullV == "null"

Range(s) == {s[i] : i \in DOMAIN s}
MaxOf(S) == IF S = {} THEN 0 ELSE CHOOSE m \in S : \A x \in S : x <= m

VARIABLES
    _db,        \* None, or Some(content): the live sql.js Database
    _SQL,       \* TRUE once initSqlJs has resolved
    _dirty,     \* true after any write, cleared after persist
    sqltx,      \* the connection's open transaction: None or Some(content at BEGIN)
    lastRowid,  \* the connection's last_insert_rowid()
    idb,        \* the durable blob under IDB_KEY: None or Some(image)
    puts,       \* _saveToIDB requests in flight, oldest first: [owner, image]
    calls,      \* every API call issued so far: [op, pc, err, nput, loc]
    handles,    \* number of Database instances made live so far
    writeEpoch, \* number of statements that changed the in-memory database
    overlap,    \* whether callers issue calls while a transaction awaits its fn
    legacy,     \* the old LocalForage store
    today       \* the date DB.today() returns

vars == <<_db, _SQL, _dirty, sqltx, lastRowid, idb, puts, calls, handles,
          writeEpoch, overlap, legacy, today>>

\* ------------------------------------------------------- database content
\* The seed image data/gas.db: the four tables, no rows the core reads.
Seed == [tables |-> REQUIRED_TABLES, days |-> {}, sales |-> {}, settings |-> {}]

\* Statements the code issues.
InsertDay(date, os, up, orIgnore) ==
    [t |-> "insDay", date |-> date, os |-> os, up |-> up, orIgnore |-> orIgnore]
InsertSale(dayId, seq, kg, price, comments) ==
    [t |-> "insSale", day_id |-> dayId, seq |-> seq, kg |-> kg, price |-> price,
     comments |-> comments]
UpsertSetting(key, value) == [t |-> "setSetting", key |-> key, value |-> value]
\* DELETE FROM sales WHERE id = ?
DeleteSaleStmt(id) == [t |-> "delSale", id |-> id]
\* UPDATE sales SET seq = ? WHERE id = ?
SetSeq(seq, id) == [t |-> "setSeq", seq |-> seq, id |-> id]
\* UPDATE days SET unit_price = ? WHERE date = ?
SetUnitPrice(up, date) == [t |-> "setUnitPrice", up |-> up, date |-> date]
\* A statement SQLite rejects (it throws and changes nothing).
BadStmt == [t |-> "bad"]

HasTable(c, name) == \E i \in DOMAIN c.tables : c.tables[i] = name

\* _db.run(sql, params) / _db.exec(sql, params) on content c with the
\* connection's last_insert_rowid lr: [ok, db, rowid, changes].
Exec(c, stmt, lr) ==
    LET fail == [ok |-> FALSE, db |-> c, rowid |-> lr, changes |-> 0]
        same == [ok |-> TRUE, db |-> c, rowid |-> lr, changes |-> 0]
    IN CASE stmt.t = "insDay" ->
              IF ~HasTable(c, "days") THEN fail
              ELSE IF \E d \in c.days : d.date = stmt.date
              THEN (IF stmt.orIgnore THEN same ELSE fail)
              ELSE LET id == MaxOf({d.id : d \in c.days}) + 1
                   IN [ok |-> TRUE,
                       db |-> [c EXCEPT !.days = @ \cup
                                 {[id |-> id, date |-> stmt.date,
                                   opening_stock |-> stmt.os,
                                   unit_price |-> stmt.up]}],
                       rowid |-> id, changes |-> 1]
         [] stmt.t = "insSale" ->
              \* day_id is not checked: export() reopens the connection, which
              \* puts foreign_keys back to off, and a run() has exported
              \* before any caller's INSERT INTO sales.
              IF ~HasTable(c, "sales") THEN fail
              ELSE LET id == MaxOf({s.id : s \in c.sales}) + 1
                   IN [ok |-> TRUE,
                       db |-> [c EXCEPT !.sales = @ \cup
                                 {[id |-> id, day_id |-> stmt.day_id,
                                   seq |-> stmt.seq, kg |-> stmt.kg,
                                   price |-> stmt.price,
                                   comments |-> stmt.comments]}],
                       rowid |-> id, changes |-> 1]
         [] stmt.t = "setSetting" ->
              IF ~HasTable(c, "settings") THEN fail
              ELSE [ok |-> TRUE,
                    db |-> [c EXCEPT !.settings =
                              {p \in @ : p[1] # stmt.key}
                                \cup {<<stmt.key, stmt.value>>}],
                    rowid |-> lr, changes |-> 1]
         [] stmt.t = "delSale" ->
              IF ~HasTable(c, "sales") THEN fail
              ELSE [ok |-> TRUE,
                    db |-> [c EXCEPT !.sales = {x \in @ : x.id # stmt.id}],
                    rowid |-> lr,
                    changes |-> Cardinality({x \in c.sales : x.id = stmt.id})]
         [] stmt.t = "setSeq" ->
              IF ~HasTable(c, "sales") THEN fail
              ELSE [ok |-> TRUE,
                    db |-> [c EXCEPT !.sales =
                              {IF x.id = stmt.id THEN [x EXCEPT !.seq = stmt.seq]
                               ELSE x : x \in @}],
                    rowid |-> lr,
                    changes |-> Cardinality({x \in c.sales : x.id = stmt.id})]
         [] stmt.t = "setUnitPrice" ->
              IF ~HasTable(c, "days") THEN fail
              ELSE [ok |-> TRUE,
                    db |-> [c EXCEPT !.days =
                              {IF d.date = stmt.date
                               THEN [d EXCEPT !.unit_price = stmt.up]
                               ELSE d : d \in @}],
                    rowid |-> lr,
                    changes |-> Cardinality({d \in c.days : d.date = stmt.date})]
         [] OTHER -> fail

\* SELECT * FROM days WHERE date = ?  (DBSales.getDay): the set of rows.
getDay(c, date) == {d \in c.days : d.date = date}

\* SELECT value FROM settings WHERE key = ?  (DBSales.getSetting)
getSetting(c, key) ==
    IF \E p \in c.settings : p[1] = key
    THEN (CHOOSE p \in c.settings : p[1] = key)[2]
    ELSE NullV

\* SELECT ... FROM sales WHERE day_id = ? ORDER BY seq ASC: the rows as a
\* sequence (rows of equal seq in id order).
RECURSIVE OrderBySeq(_)
OrderBySeq(S) ==
    IF S = {} THEN <<>>
    ELSE LET m == CHOOSE x \in S :
                    \A y \in S : x.seq < y.seq \/ (x.seq = y.seq /\ x.id <= y.id)
         IN <<m>> \o OrderBySeq(S \ {m})
getSalesForDay(c, dayId) == OrderBySeq({x \in c.sales : x.day_id = dayId})

ExportOfSeed(c) == Seed
\* _db.export(): the image of the database.
Export(c) == c

\* sql.js Database.export() closes the connection and opens it again on the
\* same file: a transaction that is open is rolled back (tx holds the
\* content at BEGIN), and last_insert_rowid() of the new connection is 0.
Reopened(db, tx) == IF tx = None THEN db ELSE tx

\* ------------------------------------------------------------ call records
NewCall(op, pc, err, loc) == [op |-> op, pc |-> pc, err |-> err, nput |-> 0, loc |-> loc]
Ids == DOMAIN calls
Me == Len(calls) + 1
Done(c) == calls[c].pc \in {"returned", "rejected"}
DoneIds == {c \in Ids : Done(c)}
\* Some init() call has completed.
InitReturned == \E c \in Ids : calls[c].op = "init" /\ calls[c].pc = "returned"

\* A call suspended on `await fn(_runInTx)`: its continuation is a microtask,
\* which runs before any storage, fetch or legacy-store event.
MicrotaskPending ==
    \E c \in Ids : calls[c].op = "transaction" /\ calls[c].pc = "awaitFn"

\* A new call can be issued: by default callers serialise on an open
\* transaction (they await it before issuing the next call).
CanCall == Len(calls) < MaxCalls /\ (MicrotaskPending => overlap)

\* The oldest _saveToIDB request in flight is call c's.
HeadIs(c) == puts # <<>> /\ puts[1].owner = c /\ ~MicrotaskPending

\* ------------------------------------------------------------- DB.persist
\* persist() up to its await: [puts, nput, suspended] for caller c.
PersistStart(c, db, dirty, q) ==
    IF db = None \/ ~dirty
    THEN [puts |-> q, started |-> FALSE]
    ELSE [puts |-> Append(q, [owner |-> c, image |-> Export(db[1])]),
          started |-> TRUE]

PersistCall ==
    /\ CanCall
    /\ LET p == PersistStart(Me, Reopened(_db, sqltx), _dirty, puts)
       IN /\ puts' = p.puts
          /\ _db' = IF p.started THEN Reopened(_db, sqltx) ELSE _db
          /\ sqltx' = IF p.started THEN None ELSE sqltx
          /\ lastRowid' = IF p.started THEN 0 ELSE lastRowid
          /\ writeEpoch' = IF _db' # _db THEN writeEpoch + 1 ELSE writeEpoch
          /\ calls' = Append(calls,
                [NewCall("persist", IF p.started THEN "awaitPut" ELSE "returned", "",
                         [dirty0 |-> _dirty, epoch0 |-> writeEpoch, done0 |-> DoneIds])
                   EXCEPT !.nput = IF p.started THEN 1 ELSE 0])
    /\ UNCHANGED <<_SQL, _dirty, idb, handles, overlap, legacy, today>>

DirtyNotCleared == TRUE
\* The value _dirty has after persist()'s await resolved.
DirtyAfterPersist == FALSE

\* The storage write of call c (persist, run or transaction) succeeded:
\* persist() clears the flag and the call returns.
PersistResume(c) ==
    /\ calls[c].op \in {"persist", "run", "transaction"}
    /\ calls[c].pc = "awaitPut"
    /\ HeadIs(c)
    /\ idb' = Some(puts[1].image)
    /\ puts' = Tail(puts)
    /\ _dirty' = DirtyAfterPersist
    /\ calls' = [calls EXCEPT ![c].pc = "returned"]
    /\ UNCHANGED <<_db, _SQL, sqltx, lastRowid, handles, writeEpoch, overlap,
                   legacy, today>>

\* The storage write of call c failed: persist() rejects.  run() and
\* persist() pass the failure on; transaction() catches it and issues
\* ROLLBACK, which throws when no transaction is active (COMMIT was done).
PersistFail(c) ==
    /\ calls[c].op \in {"persist", "run", "transaction"}
    /\ calls[c].pc = "awaitPut"
    /\ HeadIs(c)
    /\ puts' = Tail(puts)
    /\ IF calls[c].op = "transaction" /\ sqltx # None
       THEN /\ _db' = Some(sqltx[1])
            /\ sqltx' = None
            /\ writeEpoch' = writeEpoch + 1
            /\ calls' = [calls EXCEPT ![c].pc = "rejected", ![c].err = "storage"]
       ELSE /\ UNCHANGED <<_db, sqltx, writeEpoch>>
            /\ calls' = [calls EXCEPT ![c].pc = "rejected",
                            ![c].err = IF calls[c].op = "transaction"
                                       THEN "notx" ELSE "storage"]
    /\ UNCHANGED <<_SQL, _dirty, lastRowid, idb, handles, overlap, legacy, today>>

\* ----------------------------------------------------------------- DB.run
\* run() as it would be if _dirty were set before the statement is executed.
RunStartDirtyFirst(c, stmt, db, dirty, lr, q) ==
    IF db = None
    THEN [ok |-> FALSE, err |-> "NotInitialised", db |-> db, dirty |-> dirty,
          rowid |-> lr, puts |-> q, changes |-> 0, lr |-> lr, tx |-> sqltx]
    ELSE LET r == Exec(db[1], stmt, lr)
         IN [ok |-> r.ok, err |-> IF r.ok THEN "" ELSE "sql",
             db |-> IF r.ok THEN Reopened(Some(r.db), sqltx) ELSE db,
             dirty |-> TRUE, rowid |-> r.rowid,
             puts |-> IF r.ok
                      THEN PersistStart(c, Reopened(Some(r.db), sqltx), TRUE, q).puts
                      ELSE q,
             changes |-> r.changes, lr |-> IF r.ok THEN 0 ELSE lr,
             tx |-> IF r.ok THEN None ELSE sqltx]

\* run(sql, params) up to its await, for caller c on the current state:
\* [ok, err, db, dirty, rowid, puts, changes, lr, tx].  rowid is the
\* lastInsertRowid run() read before persist(); db, lr and tx are the
\* content, last_insert_rowid() and open transaction of the connection
\* after persist() called export().
RunStart(c, stmt, db, dirty, lr, q) ==
    IF db = None
    THEN [ok |-> FALSE, err |-> "NotInitialised", db |-> db, dirty |-> dirty,
          rowid |-> lr, puts |-> q, changes |-> 0, lr |-> lr, tx |-> sqltx]
    ELSE LET r == Exec(db[1], stmt, lr)
         IN IF ~r.ok
            THEN [ok |-> FALSE, err |-> "sql", db |-> db, dirty |-> dirty,
                  rowid |-> lr, puts |-> q, changes |-> 0, lr |-> lr,
                  tx |-> sqltx]
            ELSE [ok |-> TRUE, err |-> "", db |-> Reopened(Some(r.db), sqltx),
                  dirty |-> TRUE, rowid |-> r.rowid,
                  puts |-> PersistStart(c, Reopened(Some(r.db), sqltx), TRUE,
                                        q).puts,
                  changes |-> r.changes, lr |-> 0, tx |-> None]

\* The statements callers hand to run() and query() in the engine
\* specifications.
RunStmts == {InsertDay(1, 0, 0, FALSE), BadStmt}
\* query() gets a SELECT, or the INSERT getOrCreateToday sends through it.
QueryStmts == {[t |-> "select"], InsertDay(1, 0, 0, FALSE)}

\* run(stmt) is called.
RunOf(stmt) ==
    /\ LET r == RunStart(Me, stmt, _db, _dirty, lastRowid, puts)
       IN /\ _db' = r.db
          /\ _dirty' = r.dirty
          /\ lastRowid' = r.lr
          /\ sqltx' = r.tx
          /\ puts' = r.puts
          /\ writeEpoch' = IF r.ok THEN writeEpoch + 1 ELSE writeEpoch
          /\ calls' = Append(calls,
                [NewCall("run", IF r.ok THEN "awaitPut" ELSE "rejected", r.err,
                         [stmt |-> stmt, lastId |-> r.rowid, dirty0 |-> _dirty,
                          db0 |-> _db, ready0 |-> InitReturned])
                   EXCEPT !.nput = IF r.ok THEN 1 ELSE 0])
    /\ UNCHANGED <<_SQL, idb, handles, overlap, legacy, today>>

RunCall == CanCall /\ \E stmt \in RunStmts : RunOf(stmt)

\* --------------------------------------------------------------- DB.query
\* query(sql, params): _db.exec on the live handle; no dirty flag, no
\* persist (getOrCreateToday inserts through it).
QueryCall ==
    /\ CanCall
    /\ \E stmt \in QueryStmts :
         IF _db = None
         THEN /\ calls' = Append(calls,
                    NewCall("query", "rejected", "NotInitialised",
                            [stmt |-> stmt, dirty0 |-> _dirty, db0 |-> _db,
                             ready0 |-> InitReturned]))
              /\ UNCHANGED <<_db, lastRowid, writeEpoch>>
         ELSE LET r == IF stmt.t = "select"
                       THEN [ok |-> TRUE, db |-> _db[1], rowid |-> lastRowid]
                       ELSE Exec(_db[1], stmt, lastRowid)
              IN /\ _db' = Some(r.db)
                 /\ lastRowid' = r.rowid
                 /\ writeEpoch' = IF r.db # _db[1] THEN writeEpoch + 1 ELSE writeEpoch
                 /\ calls' = Append(calls,
                       NewCall("query", IF r.ok THEN "returned" ELSE "rejected",
                               IF r.ok THEN "" ELSE "sql",
                               [stmt |-> stmt, dirty0 |-> _dirty, db0 |-> _db,
                                ready0 |-> InitReturned]))
    /\ UNCHANGED <<_SQL, _dirty, sqltx, idb, puts, handles, overlap, legacy, today>>

\* ---------------------------------------------------------- DB.transaction
\* fn(_runInTx) of a caller whose statements run without an await between
\* them (as deleteSale's): the statements apply in order up to the first
\* that throws.  [db, rowid, failedAt]; failedAt = 0 when none threw.
\* fn as it would run if a statement that throws were skipped.
RECURSIVE RunInTxAllSkipFailed(_, _, _, _)
RunInTxAllSkipFailed(c, fn, lr, i) ==
    IF i > Len(fn) THEN [db |-> c, rowid |-> lr, failedAt |-> 0]
    ELSE LET r == Exec(c, fn[i], lr)
         IN RunInTxAllSkipFailed(IF r.ok THEN r.db ELSE c, fn,
                                 IF r.ok THEN r.rowid ELSE lr, i + 1)

RECURSIVE RunInTxAll(_, _, _, _)
RunInTxAll(c, fn, lr, i) ==
    IF i > Len(fn) THEN [db |-> c, rowid |-> lr, failedAt |-> 0]
    ELSE LET r == Exec(c, fn[i], lr)
         IN IF ~r.ok THEN [db |-> c, rowid |-> lr, failedAt |-> i]
            ELSE RunInTxAll(r.db, fn, r.rowid, i + 1)

\* The rows call c's transaction writes carry c's tag.
Tag(c) == ToString(c)
TxStmts(c) == {UpsertSetting("note", Tag(c)), BadStmt}
TxFns(c) == UNION {[1..n -> TxStmts(c)] : n \in 1..MaxOps}

\* transaction(fn) up to `await fn(...)`: BEGIN, then fn's statements.
TransactionOf(fn) ==
    /\  LET loc0 == [fn |-> fn, failedAt |-> 0, dirty0 |-> _dirty, db0 |-> _db,
                      ready0 |-> InitReturned]
         IN IF _db = None
            THEN /\ calls' = Append(calls,
                       NewCall("transaction", "rejected", "NotInitialised", loc0))
                 /\ UNCHANGED <<_db, sqltx, lastRowid, writeEpoch>>
            ELSE IF sqltx # None
            THEN \* BEGIN throws inside a transaction; the catch rolls that one back
                 /\ _db' = Some(sqltx[1])
                 /\ sqltx' = None
                 /\ writeEpoch' = writeEpoch + 1
                 /\ calls' = Append(calls,
                       NewCall("transaction", "rejected", "sql", loc0))
                 /\ UNCHANGED lastRowid
            ELSE LET r == RunInTxAll(_db[1], fn, lastRowid, 1)
                 IN /\ sqltx' = Some(_db[1])
                    /\ _db' = Some(r.db)
                    /\ lastRowid' = r.rowid
                    /\ writeEpoch' = IF r.db # _db[1] THEN writeEpoch + 1
                                     ELSE writeEpoch
                    /\ calls' = Append(calls,
                          NewCall("transaction", "awaitFn", "",
                                  [loc0 EXCEPT !.failedAt = r.failedAt]))
    /\ UNCHANGED <<_SQL, _dirty, idb, puts, handles, overlap, legacy, today>>

TransactionCall == CanCall /\ \E fn \in TxFns(Me) : TransactionOf(fn)

RollbackKeepsWrites(now, atBegin) == now
\* The in-memory content after ROLLBACK, given the content now and the
\* content at BEGIN.
Rollback(now, atBegin) == atBegin

\* transaction() after `await fn(...)`: COMMIT, dirty, persist; or the
\* catch: ROLLBACK and re-throw.
TransactionResume(c) ==
    /\ calls[c].op = "transaction"
    /\ calls[c].pc = "awaitFn"
    /\ IF sqltx = None
       THEN \* COMMIT or ROLLBACK with no transaction active throws
            /\ calls' = [calls EXCEPT ![c].pc = "rejected", ![c].err = "notx"]
            /\ UNCHANGED <<_db, _dirty, sqltx, lastRowid, puts, writeEpoch>>
       ELSE IF calls[c].loc.failedAt = 0
       THEN /\ sqltx' = None
            /\ _dirty' = TRUE
            /\ lastRowid' = 0
            /\ puts' = PersistStart(c, _db, TRUE, puts).puts
            /\ calls' = [calls EXCEPT ![c].pc = "awaitPut", ![c].nput = @ + 1]
            /\ UNCHANGED <<_db, writeEpoch>>
       ELSE /\ _db' = Some(Rollback(_db[1], sqltx[1]))
            /\ sqltx' = None
            /\ writeEpoch' = IF _db' # _db THEN writeEpoch + 1 ELSE writeEpoch
            /\ calls' = [calls EXCEPT ![c].pc = "rejected", ![c].err = "sql"]
            /\ UNCHANGED <<_dirty, lastRowid, puts>>
    /\ UNCHANGED <<_SQL, idb, handles, overlap, legacy, today>>

\* ---------------------------------------------------------------- DB.init
_getExistingTables(c) == c.tables

SchemaCurrentWithoutSales(c) ==
    \A t \in {"company", "days", "settings"} :
        \E j \in DOMAIN c.tables : c.tables[j] = t
_isSchemaCurrent(c) ==
    \A i \in DOMAIN REQUIRED_TABLES :
        \E j \in DOMAIN _getExistingTables(c) :
            _getExistingTables(c)[j] = REQUIRED_TABLES[i]

\* init() up to `await initSqlJs(...)`.
InitCall ==
    /\ CanCall
    /\ calls' = Append(calls,
          NewCall("init", IF _db # None THEN "returned" ELSE "awaitSql", "",
                  [early |-> _db # None, saved |-> None, made |-> FALSE]))
    /\ UNCHANGED <<_db, _SQL, _dirty, sqltx, lastRowid, idb, puts, handles,
                   writeEpoch, overlap, legacy, today>>

\* initSqlJs resolved (or rejected); init() goes on to `await _loadFromIDB()`.
InitSqlJs(c) ==
    /\ calls[c].op = "init" /\ calls[c].pc = "awaitSql"
    /\ ~MicrotaskPending
    /\ \E ok \in BOOLEAN :
         IF ok
         THEN /\ _SQL' = TRUE
              /\ calls' = [calls EXCEPT ![c].pc = "awaitLoad"]
         ELSE /\ calls' = [calls EXCEPT ![c].pc = "rejected", ![c].err = "sqljs"]
              /\ UNCHANGED _SQL
    /\ UNCHANGED <<_db, _dirty, sqltx, lastRowid, idb, puts, handles, writeEpoch,
                   overlap, legacy, today>>

\* _loadFromIDB resolved with the stored blob (or rejected): a current
\* snapshot becomes the live handle, anything else sends init() to the seed.
InitLoaded(c) ==
    /\ calls[c].op = "init" /\ calls[c].pc = "awaitLoad"
    /\ ~MicrotaskPending
    /\ \E ok \in BOOLEAN :
         IF ~ok
         THEN /\ calls' = [calls EXCEPT ![c].pc = "rejected", ![c].err = "load"]
              /\ UNCHANGED <<_db, sqltx, lastRowid, handles>>
         ELSE IF idb # None /\ _isSchemaCurrent(idb[1])
         THEN /\ _db' = idb
              /\ sqltx' = None
              /\ lastRowid' = 0
              /\ handles' = handles + 1
              /\ calls' = [calls EXCEPT ![c].pc = "returned", ![c].loc.saved = idb,
                                        ![c].loc.made = TRUE]
         ELSE /\ calls' = [calls EXCEPT ![c].pc = "awaitFetch", ![c].loc.saved = idb]
              /\ UNCHANGED <<_db, sqltx, lastRowid, handles>>
    /\ UNCHANGED <<_SQL, _dirty, idb, puts, writeEpoch, overlap, legacy, today>>

HandleSetBeforeOkCheck(ok, db) == Some(Seed)
\* The live handle after the seed fetch returned: `if (!res.ok) throw`
\* comes before the assignment to _db.
HandleAfterFetch(ok, db) == IF ok THEN Some(Seed) ELSE db

\* fetch(DB_URL) and res.arrayBuffer() resolved (or failed): the seed becomes
\* the live handle and init() goes on to `await _saveToIDB(_db.export())`.
InitFetched(c) ==
    /\ calls[c].op = "init" /\ calls[c].pc = "awaitFetch"
    /\ ~MicrotaskPending
    /\ \E ok \in BOOLEAN :
         /\ _db' = HandleAfterFetch(ok, _db)
         /\ IF ok
            THEN /\ sqltx' = None
                 /\ lastRowid' = 0
                 /\ handles' = handles + 1
                 /\ puts' = Append(puts, [owner |-> c, image |-> Export(_db'[1])])
                 /\ calls' = [calls EXCEPT ![c].pc = "awaitSave", ![c].nput = @ + 1,
                                           ![c].loc.made = TRUE]
            ELSE /\ calls' = [calls EXCEPT ![c].pc = "rejected", ![c].err = "seed"]
                 /\ UNCHANGED <<sqltx, lastRowid, handles, puts>>
    /\ UNCHANGED <<_SQL, _dirty, idb, writeEpoch, overlap, legacy, today>>

\* The storage write of the seed completed (or failed): init() returns.
InitSaved(c) ==
    /\ calls[c].op = "init" /\ calls[c].pc = "awaitSave"
    /\ HeadIs(c)
    /\ puts' = Tail(puts)
    /\ \E ok \in BOOLEAN :
         IF ok
         THEN /\ idb' = Some(puts[1].image)
              /\ calls' = [calls EXCEPT ![c].pc = "returned"]
         ELSE /\ calls' = [calls EXCEPT ![c].pc = "rejected", ![c].err = "save"]
              /\ UNCHANGED idb
    /\ UNCHANGED <<_db, _SQL, _dirty, sqltx, lastRowid, handles, writeEpoch,
                   overlap, legacy, today>>

\* ------------------------------------------------- engine specification
NoLegacy == [daily |-> <<>>, chunks |-> <<>>, meta |-> <<>>]

\* The engine after a first-run init(): the seed is live and stored.
InitEngine ==
    /\ _db = Some(Seed) /\ _SQL = TRUE /\ _dirty = FALSE /\ sqltx = None
    /\ lastRowid = 0 /\ idb = Some(Seed) /\ puts = <<>> /\ calls = <<>>
    /\ handles = 1 /\ writeEpoch = 0 /\ overlap = FALSE
    /\ legacy = NoLegacy /\ today = 1

NextEngine ==
    \/ RunCall
    \/ QueryCall
    \/ PersistCall
    \/ TransactionCall
    \/ \E c \in Ids : TransactionResume(c)
    \/ \E c \in Ids : PersistResume(c)
    \/ \E c \in Ids : PersistFail(c)

SpecEngine == InitEngine /\ [][NextEngine]_vars

\* ------------------------------------------------ start-up specifications
\* Stored snapshots: every set of table names, in catalog order and in the
\* reverse order; a snapshot with a days table holds one Day.
TableOrder == <<"company", "days", "sales", "settings", "extra">>
Reverse(s) == [i \in DOMAIN s |-> s[Len(s) + 1 - i]]
Catalogs ==
    LET Asc(S) == SelectSeq(TableOrder, LAMBDA t : t \in S)
    IN {Asc(S) : S \in SUBSET Range(TableOrder)}
         \cup {Reverse(Asc(S)) : S \in SUBSET Range(TableOrder)}
OldDay == [id |-> 1, date |-> 1, opening_stock |-> 0, unit_price |-> 0]
Snapshot(cat) ==
    [tables |-> cat,
     days |-> IF \E i \in DOMAIN cat : cat[i] = "days" THEN {OldDay} ELSE {},
     sales |-> {}, settings |-> {}]

InitBlank(blobs) ==
    /\ _db = None /\ _SQL = FALSE /\ _dirty = FALSE /\ sqltx = None
    /\ lastRowid = 0 /\ idb \in blobs /\ puts = <<>> /\ calls = <<>>
    /\ handles = 0 /\ writeEpoch = 0 /\ overlap = FALSE
    /\ legacy = NoLegacy /\ today = 1

\* init() calls alone, over every stored snapshot.
InitStartup == InitBlank({None} \cup {Some(Snapshot(cat)) : cat \in Catalogs})

NextStartup ==
    \/ InitCall
    \/ \E c \in Ids : InitSqlJs(c)
    \/ \E c \in Ids : InitLoaded(c)
    \/ \E c \in Ids : InitFetched(c)
    \/ \E c \in Ids : InitSaved(c)

SpecStartup == InitStartup /\ [][NextStartup]_vars

\* init() together with query(), run() and transaction() calls.
InitBoot ==
    InitBlank({None, Some(Snapshot(REQUIRED_TABLES)),
               Some(Snapshot(<<"company", "days", "settings">>))})

NextBoot ==
    \/ InitCall
    \/ \E c \in Ids : InitSqlJs(c)
    \/ \E c \in Ids : InitLoaded(c)
    \/ \E c \in Ids : InitFetched(c)
    \/ \E c \in Ids : InitSaved(c)
    \/ RunCall
    \/ QueryCall
    \/ TransactionCall
    \/ \E c \in Ids : TransactionResume(c)
    \/ \E c \in Ids : PersistResume(c)
    \/ \E c \in Ids : PersistFail(c)

SpecBoot == InitBoot /\ [][NextBoot]_vars

\* ================================================================ Migrate
\* A CSV cell that is not a number (parseInt / parseFloat give NaN).
Text == 0 - 999
\* The first cell of the header line, "S/NO".
SNO == 0 - 998
\* parseFloat(x) || 0, and parseInt(x) || 0, of a cell or a missing column.
Num(cols, k) ==
    IF k > Len(cols) THEN 0
    ELSE IF cols[k] \in {Text, SNO} THEN 0 ELSE cols[k]

\* The loop as it would be if only sold rows set the unit price.
RECURSIVE ParseRowsSoldOnly(_, _, _)
ParseRowsSoldOnly(lines, k, acc) ==
    IF k > Len(lines) THEN acc
    ELSE LET cols == lines[k]
             kg == Num(cols, 2)
             first == acc.firstRow /\ kg > 0
         IN IF Len(cols) < 4 THEN ParseRowsSoldOnly(lines, k + 1, acc)
            ELSE ParseRowsSoldOnly(lines, k + 1,
                   [sales |-> IF kg > 0
                              THEN Append(acc.sales,
                                     [seq |-> Num(cols, 1), kg |-> kg,
                                      price |-> Num(cols, 3), comments |-> cols[4]])
                              ELSE acc.sales,
                    unitPrice |-> IF Num(cols, 5) > 0 /\ kg > 0 THEN Num(cols, 5)
                                  ELSE acc.unitPrice,
                    openStock |-> IF first THEN Num(cols, 6) + kg ELSE acc.openStock,
                    firstRow |-> IF first THEN FALSE ELSE acc.firstRow])

\* The rows _parseCSV's loop has seen so far: [sales, unitPrice, openStock,
\* firstRow], folded over the lines that are neither blank nor the header.
RECURSIVE ParseRows(_, _, _)
ParseRows(lines, k, acc) ==
    IF k > Len(lines) THEN acc
    ELSE LET cols == lines[k]
             seq == Num(cols, 1)
             kg == Num(cols, 2)
             price == Num(cols, 3)
             comments == IF Len(cols) >= 4 THEN cols[4] ELSE Text
             unit == Num(cols, 5)
             balance == Num(cols, 6)
             first == acc.firstRow /\ kg > 0
         IN IF Len(cols) < 4 THEN ParseRows(lines, k + 1, acc)
            ELSE ParseRows(lines, k + 1,
                   [sales |-> IF kg > 0
                              THEN Append(acc.sales,
                                     [seq |-> seq, kg |-> kg, price |-> price,
                                      comments |-> comments])
                              ELSE acc.sales,
                    unitPrice |-> IF unit > 0 THEN unit ELSE acc.unitPrice,
                    openStock |-> IF first THEN balance + kg ELSE acc.openStock,
                    firstRow |-> IF first THEN FALSE ELSE acc.firstRow])

\* _parseCSV(csvString): None for null, else Some([unitPrice, openingStock,
\* sales]).  A line is its sequence of cells; a blank line has none.
_parseCSV(csvLines) ==
    LET lines == SelectSeq(csvLines, LAMBDA l : l # <<>> /\ l[1] # SNO)
    IN IF lines = <<>> THEN None
       ELSE LET r == ParseRows(lines, 1,
                       [sales |-> <<>>, unitPrice |-> 0, openStock |-> 0,
                        firstRow |-> TRUE])
            IN Some([unitPrice |-> r.unitPrice, openingStock |-> r.openStock,
                     sales |-> r.sales])

\* Migrate.isDone()
NeverDone(c) == FALSE
isDone(c) == getSetting(c, MIGRATION_DONE_KEY) = "1"

\* The keys as they would be in descending order.
RECURSIVE SortDesc(_)
SortDesc(S) ==
    IF S = {} THEN <<>>
    ELSE LET m == CHOOSE x \in S : \A y \in S : x >= y
         IN <<m>> \o SortDesc(S \ {m})

\* A set of numbers as an ascending sequence (Array.prototype.sort).
RECURSIVE SortAsc(_)
SortAsc(S) ==
    IF S = {} THEN <<>>
    ELSE LET m == CHOOSE x \in S : \A y \in S : x <= y
         IN <<m>> \o SortAsc(S \ {m})

\* parseInt of a chunk key's suffix, the suffix being a sequence of digits.
RECURSIVE parseInt(_)
parseInt(s) ==
    IF s = <<>> THEN 0
    ELSE parseInt(SubSeq(s, 1, Len(s) - 1)) * 10 + s[Len(s)]

\* The chunk keys' comparator (a, b) => na - nb: a is not placed after b.
ChunkKeyLeq(a, b) == parseInt(a) <= parseInt(b)

\* chunkKeys: the salesChunk_ keys sorted with the comparator.
RECURSIVE SortChunkKeys(_)
SortChunkKeys(S) ==
    IF S = {} THEN <<>>
    ELSE LET m == CHOOSE x \in S : \A y \in S : ChunkKeyLeq(x, y)
         IN <<m>> \o SortChunkKeys(S \ {m})

\* store.keys() is empty.
NoKeys(st) == DOMAIN st.daily = {} /\ DOMAIN st.chunks = {} /\ st.meta = None

\* The locals of a Migrate.run() call.
MigrateLocals ==
    [done0 |-> FALSE, nokeys |-> FALSE, keysFailed |-> FALSE, dailyKeys |-> <<>>, chunkKeys |-> <<>>,
     i |-> 0, parsed |-> None, lastId |-> 0, dayId |-> 0, j |-> 0, next |-> "",
     migratedDays |-> 0, migratedSales |-> 0, skippedDays |-> 0,
     todayDate |-> 0, todayExists |-> FALSE, unitPrice |-> 0, openStock |-> 0, allSales |-> <<>>,
     ck |-> 0, validSales |-> <<>>, result |-> "", reads |-> 0]

\* What a Migrate.run() call does next, up to its next await: it suspends
\* on a legacy read (pc), or issues DB.run(stmt) and awaits it, going on at
\* loc.next afterwards; or it returns.
Suspend(pc, L) == [pc |-> pc, loc |-> L, stmt |-> None]
Issue(stmt, next, L) == [pc |-> "awaitPut", loc |-> [L EXCEPT !.next = next],
                         stmt |-> Some(stmt)]

\* 5. Mark migration complete: saveSetting(MIGRATION_DONE_KEY, '1').
Finish(L) == Issue(UpsertSetting(MIGRATION_DONE_KEY, "1"), "retDone", L)

\* 4. The live chunks, after the historical keys.
ChunkPhase(L) ==
    IF L.chunkKeys # <<>> THEN Suspend("awaitMeta", L) ELSE Finish(L)

\* 3. The historical keys from index i on: keys whose date has a Day are
\* skipped; the first other key is read from the legacy store.
RECURSIVE DailyFrom(_, _, _)
DailyFrom(c, L, i) ==
    IF i > Len(L.dailyKeys) THEN ChunkPhase(L)
    ELSE IF getDay(c, L.dailyKeys[i]) # {}
    THEN DailyFrom(c, [L EXCEPT !.skippedDays = @ + 1], i + 1)
    ELSE Suspend("awaitItem", [L EXCEPT !.i = i])

\* The INSERT of sale j of a list, for Day dayId.
SaleStmt(dayId, s) == InsertSale(dayId, s.seq, s.kg, s.price, s.comments)

\* The call c carries out step d from the state (db, dirty, lr, q).
Proceed(c, d, db, dirty, lr, q) ==
    IF d.stmt = None
    THEN /\ _db' = db /\ _dirty' = dirty /\ lastRowid' = lr /\ puts' = q
         /\ UNCHANGED <<writeEpoch, sqltx>>
         /\ calls' = [calls EXCEPT ![c].pc = d.pc, ![c].loc = d.loc]
    ELSE LET r == RunStart(c, d.stmt[1], db, dirty, lr, q)
         IN /\ _db' = r.db /\ _dirty' = r.dirty /\ lastRowid' = r.lr
            /\ sqltx' = r.tx
            /\ puts' = r.puts
            /\ writeEpoch' = IF r.ok THEN writeEpoch + 1 ELSE writeEpoch
            /\ calls' = [calls EXCEPT
                  ![c].pc = IF r.ok THEN "awaitPut" ELSE "rejected",
                  ![c].err = r.err,
                  ![c].nput = IF r.ok THEN @ + 1 ELSE @,
                  ![c].loc = [d.loc EXCEPT !.lastId = r.rowid]]

\* Importer runs follow one another.
CanMigrate ==
    /\ Len(calls) < MaxRuns
    /\ \A c \in Ids : calls[c].pc \in {"returned", "rejected", "killed"}

\* Migrate.run() up to `await store.keys()`.
MigrateCall ==
    /\ CanMigrate
    /\ IF _db = None
       THEN calls' = Append(calls,
              NewCall("migrate", "rejected", "NotInitialised", MigrateLocals))
       ELSE IF isDone(_db[1])
       THEN calls' = Append(calls,
              NewCall("migrate", "returned", "",
                      [MigrateLocals EXCEPT !.done0 = TRUE, !.result = "skipped"]))
       ELSE calls' = Append(calls,
              NewCall("migrate", "awaitKeys", "", MigrateLocals))
    /\ UNCHANGED <<_db, _SQL, _dirty, sqltx, lastRowid, idb, puts, handles,
                   writeEpoch, overlap, legacy, today>>

\* store.keys() rejected: the catch block sets the marker and returns.
KeysFailedWithoutMarker(L) ==
    Suspend("returned", [L EXCEPT !.nokeys = TRUE, !.keysFailed = TRUE,
                                  !.result = "nostore"])
KeysFailed(L) ==
    Issue(UpsertSetting(MIGRATION_DONE_KEY, "1"), "retNoStore",
          [L EXCEPT !.nokeys = TRUE, !.keysFailed = TRUE])

\* store.keys() resolved or rejected.
MigrateKeys(c) ==
    /\ calls[c].op = "migrate" /\ calls[c].pc = "awaitKeys"
    /\ ~MicrotaskPending
    /\ \E ok \in BOOLEAN :
         LET L == [calls[c].loc EXCEPT !.reads = @ + 1]
             d == IF ~ok
                  THEN KeysFailed(L)
                  ELSE IF NoKeys(legacy)
                  THEN Issue(UpsertSetting(MIGRATION_DONE_KEY, "1"), "retEmpty",
                             [L EXCEPT !.nokeys = TRUE])
                  ELSE DailyFrom(_db[1],
                         [L EXCEPT !.dailyKeys = SortAsc(DOMAIN legacy.daily),
                                   !.chunkKeys = SortChunkKeys(DOMAIN legacy.chunks)], 1)
         IN Proceed(c, d, _db, _dirty, lastRowid, puts)
    /\ UNCHANGED <<_SQL, idb, handles, overlap, legacy, today>>

\* store.getItem(key) of a historical key resolved or rejected.
MigrateItem(c) ==
    /\ calls[c].op = "migrate" /\ calls[c].pc = "awaitItem"
    /\ ~MicrotaskPending
    /\ \E ok \in BOOLEAN :
         IF ~ok
         THEN /\ calls' = [calls EXCEPT ![c].pc = "rejected", ![c].err = "legacy"]
              /\ UNCHANGED <<_db, _dirty, sqltx, lastRowid, puts, writeEpoch>>
         ELSE LET L == [calls[c].loc EXCEPT !.reads = @ + 1]
                  date == L.dailyKeys[L.i]
                  csv == legacy.daily[date]
                  parsed == IF csv.str THEN _parseCSV(csv.lines) ELSE None
                  d == IF ~csv.str \/ csv.lines = <<>>
                       THEN DailyFrom(_db[1], L, L.i + 1)
                       ELSE IF parsed = None \/ parsed[1].sales = <<>>
                       THEN DailyFrom(_db[1], L, L.i + 1)
                       ELSE Issue(InsertDay(date, parsed[1].openingStock,
                                            parsed[1].unitPrice, TRUE),
                                  "dayInserted", [L EXCEPT !.parsed = parsed])
              IN Proceed(c, d, _db, _dirty, lastRowid, puts)
    /\ UNCHANGED <<_SQL, idb, handles, overlap, legacy, today>>

\* A chunk row's fields: parseFloat(x) || 0.
NumV(x) == IF x = Text THEN 0 ELSE x

\* The INSERT of row k of the live chunks, for Day dayId.
ChunkSaleStmt(dayId, k, s, unitPrice) ==
    LET kg == NumV(s.gas)
        price == IF NumV(s.price) # 0 THEN NumV(s.price) ELSE kg * unitPrice
    IN InsertSale(dayId, k, kg, price, s.comments)

\* Migrate.run() after an awaited DB.run() as it would go on without the
\* `if (!dayId)` tests.
AfterRunUnchecked(c, L) ==
    CASE L.next = "dayInserted" ->
           Issue(SaleStmt(L.lastId, L.parsed[1].sales[1]), "sale",
                 [L EXCEPT !.j = 1, !.dayId = L.lastId])
      [] L.next = "sale" ->
           LET L1 == [L EXCEPT !.migratedSales = @ + 1]
           IN IF L.j < Len(L.parsed[1].sales)
              THEN Issue(SaleStmt(L.dayId, L.parsed[1].sales[L.j + 1]), "sale",
                         [L1 EXCEPT !.j = L.j + 1])
              ELSE DailyFrom(c, [L1 EXCEPT !.migratedDays = @ + 1], L.i + 1)
      [] L.next = "todayInserted" ->
           Issue(ChunkSaleStmt(L.lastId, 1, L.validSales[1], L.unitPrice),
                 "csale", [L EXCEPT !.j = 1, !.dayId = L.lastId])
      [] L.next = "csale" ->
           LET L1 == [L EXCEPT !.migratedSales = @ + 1]
           IN IF L.j < Len(L.validSales)
              THEN Issue(ChunkSaleStmt(L.dayId, L.j + 1, L.validSales[L.j + 1],
                                       L.unitPrice),
                         "csale", [L1 EXCEPT !.j = L.j + 1])
              ELSE Finish([L1 EXCEPT !.migratedDays = @ + 1])
      [] L.next = "retNoStore" -> Suspend("returned", [L EXCEPT !.result = "nostore"])
      [] L.next = "retEmpty" -> Suspend("returned", [L EXCEPT !.result = "empty"])
      [] OTHER -> Suspend("returned", [L EXCEPT !.result = "summary"])

\* Where Migrate.run() goes on after an awaited DB.run() returned.
AfterRun(c, L) ==
    CASE L.next = "dayInserted" ->
           IF L.lastId = 0 THEN DailyFrom(c, L, L.i + 1)
           ELSE Issue(SaleStmt(L.lastId, L.parsed[1].sales[1]), "sale",
                      [L EXCEPT !.j = 1, !.dayId = L.lastId])
      [] L.next = "sale" ->
           LET L1 == [L EXCEPT !.migratedSales = @ + 1]
           IN IF L.j < Len(L.parsed[1].sales)
              THEN Issue(SaleStmt(L.dayId, L.parsed[1].sales[L.j + 1]), "sale",
                         [L1 EXCEPT !.j = L.j + 1])
              ELSE DailyFrom(c, [L1 EXCEPT !.migratedDays = @ + 1], L.i + 1)
      [] L.next = "todayInserted" ->
           IF L.lastId = 0 THEN Finish(L)
           ELSE Issue(ChunkSaleStmt(L.lastId, 1, L.validSales[1], L.unitPrice),
                      "csale", [L EXCEPT !.j = 1, !.dayId = L.lastId])
      [] L.next = "csale" ->
           LET L1 == [L EXCEPT !.migratedSales = @ + 1]
           IN IF L.j < Len(L.validSales)
              THEN Issue(ChunkSaleStmt(L.dayId, L.j + 1, L.validSales[L.j + 1],
                                       L.unitPrice),
                         "csale", [L1 EXCEPT !.j = L.j + 1])
              ELSE Finish([L1 EXCEPT !.migratedDays = @ + 1])
      [] L.next = "retNoStore" -> Suspend("returned", [L EXCEPT !.result = "nostore"])
      [] L.next = "retEmpty" -> Suspend("returned", [L EXCEPT !.result = "empty"])
      [] OTHER -> Suspend("returned", [L EXCEPT !.result = "summary"])

\* The storage write of the DB.run() that Migrate.run() awaits succeeded.
MigrateResume(c) ==
    /\ calls[c].op = "migrate" /\ calls[c].pc = "awaitPut"
    /\ HeadIs(c)
    /\ idb' = Some(puts[1].image)
    /\ Proceed(c, AfterRun(_db[1], calls[c].loc), _db, DirtyAfterPersist,
               lastRowid, Tail(puts))
    /\ UNCHANGED <<_SQL, handles, overlap, legacy, today>>

\* The storage write failed: DB.run() rejects and so does Migrate.run().
MigrateSaveFail(c) ==
    /\ calls[c].op = "migrate" /\ calls[c].pc = "awaitPut"
    /\ HeadIs(c)
    /\ puts' = Tail(puts)
    /\ calls' = [calls EXCEPT ![c].pc = "rejected", ![c].err = "storage"]
    /\ UNCHANGED <<_db, _SQL, _dirty, sqltx, lastRowid, idb, handles, writeEpoch,
                   overlap, legacy, today>>

\* store.getItem('salesMeta') resolved or rejected.
MigrateMeta(c) ==
    /\ calls[c].op = "migrate" /\ calls[c].pc = "awaitMeta"
    /\ ~MicrotaskPending
    /\ \E ok \in BOOLEAN :
         IF ~ok
         THEN /\ calls' = [calls EXCEPT ![c].pc = "rejected", ![c].err = "legacy"]
              /\ UNCHANGED <<_db, _dirty, sqltx, lastRowid, puts, writeEpoch>>
         ELSE LET meta == legacy.meta
                  L == [calls[c].loc EXCEPT
                          !.reads = @ + 1,
                          !.todayDate = today,
                          !.todayExists = getDay(_db[1], today) # {},
                          !.unitPrice = IF meta = None THEN 0
                                        ELSE NumV(meta[1].unitPrice),
                          !.openStock = IF meta = None THEN 0
                                        ELSE NumV(meta[1].newStock),
                          !.allSales = <<>>,
                          !.ck = 1]
                  d == IF L.todayExists THEN Finish(L)
                       ELSE Suspend("awaitChunk", L)
              IN Proceed(c, d, _db, _dirty, lastRowid, puts)
    /\ UNCHANGED <<_SQL, idb, handles, overlap, legacy, today>>

\* store.getItem('salesChunk_n') resolved or rejected.
MigrateChunk(c) ==
    /\ calls[c].op = "migrate" /\ calls[c].pc = "awaitChunk"
    /\ ~MicrotaskPending
    /\ \E ok \in BOOLEAN :
         IF ~ok
         THEN /\ calls' = [calls EXCEPT ![c].pc = "rejected", ![c].err = "legacy"]
              /\ UNCHANGED <<_db, _dirty, sqltx, lastRowid, puts, writeEpoch>>
         ELSE LET L0 == calls[c].loc
                  chunk == legacy.chunks[L0.chunkKeys[L0.ck]]
                  all == IF chunk.arr THEN L0.allSales \o chunk.rows
                         ELSE L0.allSales
                  valid == SelectSeq(all, LAMBDA r : NumV(r.gas) > 0)
                  L == [L0 EXCEPT !.reads = @ + 1, !.allSales = all]
                  d == IF L0.ck < Len(L0.chunkKeys)
                       THEN Suspend("awaitChunk", [L EXCEPT !.ck = @ + 1])
                       ELSE IF valid = <<>> THEN Finish(L)
                       ELSE Issue(InsertDay(L.todayDate, L.openStock, L.unitPrice,
                                            TRUE),
                                  "todayInserted", [L EXCEPT !.validSales = valid])
              IN Proceed(c, d, _db, _dirty, lastRowid, puts)
    /\ UNCHANGED <<_SQL, idb, handles, overlap, legacy, today>>

\* The process stops while an importer run is suspended and the application
\* is started again: of the storage writes in flight the oldest n complete,
\* and init() makes the stored snapshot the live handle.
Restart ==
    /\ \E c \in Ids : calls[c].op = "migrate" /\ ~Done(c) /\ calls[c].pc # "killed"
    /\ \E n \in 0..Len(puts) :
         /\ idb' = IF n = 0 THEN idb ELSE Some(puts[n].image)
         /\ _db' = idb'
    /\ _isSchemaCurrent(_db'[1])
    /\ _dirty' = FALSE /\ sqltx' = None /\ lastRowid' = 0 /\ puts' = <<>>
    /\ handles' = handles + 1
    /\ calls' = [c \in Ids |-> IF Done(c) THEN calls[c]
                               ELSE [calls[c] EXCEPT !.pc = "killed"]]
    /\ UNCHANGED <<_SQL, writeEpoch, overlap, legacy, today>>

\* The calendar date changes.
Midnight ==
    /\ today <= MaxDate
    /\ today' = today + 1
    /\ UNCHANGED <<_db, _SQL, _dirty, sqltx, lastRowid, idb, puts, calls, handles,
                   writeEpoch, overlap, legacy>>

\* ---------------------------------------------- importer specification
\* Legacy data.  Every sale row carries its own comment (date, row).
CsvTwo(date) ==
    [str |-> TRUE,
     lines |-> << <<SNO, Text, Text, Text, Text, Text>>,
                  <<1, 5, 10, date * 10 + 1, 2, 15>>,
                  <<>>,
                  <<2, 3, 6, date * 10 + 2, 2, 12>> >>]
CsvNoSales(date) ==
    [str |-> TRUE,
     lines |-> << <<SNO, Text, Text, Text, Text, Text>>,
                  <<1, 0, 0, date * 10 + 1, 2, 15>>,
                  <<2, 3>> >>]
CsvNotString(date) == [str |-> FALSE, lines |-> <<>>]
Csv(date, kind) ==
    CASE kind = "two" -> CsvTwo(date)
      [] kind = "nosales" -> CsvNoSales(date)
      [] OTHER -> CsvNotString(date)

\* salesChunk_2 and salesChunk_10, by the digits of their index.
LiveChunks ==
    (<<2>> :> [arr |-> TRUE,
           rows |-> << [gas |-> 4, price |-> 8, comments |-> 101],
                       [gas |-> 0, price |-> 0, comments |-> 102] >>])
    @@ (<<1, 0>> :> [arr |-> TRUE,
               rows |-> << [gas |-> 1, price |-> Text, comments |-> 103] >>])

\* Chunks with a row whose recorded amount is 0, and a value that is no array.
FreeChunks ==
    (<<1, 0>> :> [arr |-> TRUE,
                  rows |-> << [gas |-> 3, price |-> 0, comments |-> 104] >>])
    @@ (<<9>> :> [arr |-> FALSE, rows |-> <<>>])

\* Chunks without a row of positive quantity.
IdleChunks ==
    (<<1>> :> [arr |-> TRUE,
               rows |-> << [gas |-> 0, price |-> 5, comments |-> 105],
                           [gas |-> Text, price |-> 5, comments |-> 106] >>])

\* The kinds of the historical keys: at most one of them is malformed.
CsvKinds ==
    {k \in [1..MaxDate -> {"two", "nosales", "notstring"}] :
        Cardinality({d \in 1..MaxDate : k[d] # "two"}) <= 1}

LegacyStores ==
    {[daily |-> [d \in D |-> Csv(d, kind[d])], chunks |-> ch.chunks, meta |-> ch.meta] :
        D \in SUBSET (1..MaxDate),
        kind \in CsvKinds,
        ch \in {[chunks |-> <<>>, meta |-> None],
                [chunks |-> LiveChunks,
                 meta |-> Some([unitPrice |-> 2, newStock |-> 20])]}}

InitMigrate ==
    /\ _db = Some(Seed) /\ _SQL = TRUE /\ _dirty = FALSE /\ sqltx = None
    /\ lastRowid = 0 /\ idb = Some(Seed) /\ puts = <<>> /\ calls = <<>>
    /\ handles = 1 /\ writeEpoch = 0 /\ overlap = FALSE
    /\ legacy \in LegacyStores /\ today = MaxDate

NextMigrate ==
    \/ MigrateCall
    \/ \E c \in Ids : MigrateKeys(c)
    \/ \E c \in Ids : MigrateItem(c)
    \/ \E c \in Ids : MigrateResume(c)
    \/ \E c \in Ids : MigrateSaveFail(c)
    \/ \E c \in Ids : MigrateMeta(c)
    \/ \E c \in Ids : MigrateChunk(c)
    \/ Restart
    \/ Midnight

SpecMigrate == InitMigrate /\ [][NextMigrate]_vars

\* ------------------------------------------------ parser specification
\* The lines a CSV text is made of: a blank line, the header, a line of three
\* columns, and rows with and without quantity, unit price and balance.
CsvLines ==
    { <<>>,
      <<SNO, Text, Text, Text, Text, Text>>,
      <<9, 4, 8>>,
      <<1, 5, 10, 71, 2, 15>>,
      <<2, 0, 0, 72, 3, 15>>,
      <<3, 3, 6, 73, 0, 12>>,
      <<4, 2, 4, 74>>,
      <<Text, 0 - 1, 7, 75, 0 - 2, 9>> }

CsvTexts == UNION {[1..n -> CsvLines] : n \in 0..MaxLines}

InitParse ==
    /\ _db = Some(Seed) /\ _SQL = TRUE /\ _dirty = FALSE /\ sqltx = None
    /\ lastRowid = 0 /\ idb = Some(Seed) /\ puts = <<>> /\ calls = <<>>
    /\ handles = 1 /\ writeEpoch = 0 /\ overlap = FALSE
    /\ legacy \in {[daily |-> (1 :> [str |-> TRUE, lines |-> t]),
                    chunks |-> <<>>, meta |-> None] : t \in CsvTexts}
    /\ today = 1

\* _parseCSV(csv) is called on the stored text.
ParseCall ==
    /\ calls = <<>>
    /\ calls' = << NewCall("_parseCSV", "returned", "",
                           [lines |-> legacy.daily[1].lines,
                            out |-> _parseCSV(legacy.daily[1].lines)]) >>
    /\ UNCHANGED <<_db, _SQL, _dirty, sqltx, lastRowid, idb, puts, handles,
                   writeEpoch, overlap, legacy, today>>

NextParse == ParseCall

SpecParse == InitParse /\ [][NextParse]_vars

\* ================================================================ DBSales
\* The rows of the most recent Day before date (ORDER BY d.date DESC LIMIT 1).
PrevDay(c, date) ==
    {d \in c.days : d.date < date /\ \A e \in c.days : e.date < date => e.date <= d.date}

\* COALESCE(SUM(s.kg), 0) of the Sales of Day dayId.
RECURSIVE SumKg(_)
SumKg(S) ==
    IF S = {} THEN 0
    ELSE LET x == CHOOSE y \in S : TRUE IN x.kg + SumKg(S \ {x})
KgSold(c, dayId) == SumKg({x \in c.sales : x.day_id = dayId})

CarryWithoutFloor(opening, sold) == opening - sold
\* Math.max(0, prev.opening_stock - prev.kg_sold)
Carry(opening, sold) == IF opening - sold > 0 THEN opening - sold ELSE 0

\* The opening_stock and unit_price getOrCreateToday gives a new Day.
CarryForward(c, date) ==
    IF PrevDay(c, date) = {} THEN [opening_stock |-> 0, unit_price |-> 0]
    ELSE LET prev == CHOOSE d \in PrevDay(c, date) : TRUE
         IN [opening_stock |-> Carry(prev.opening_stock, KgSold(c, prev.id)),
             unit_price |-> prev.unit_price]

\* getOrCreateToday(): synchronous.  A missing Day is inserted through
\* DB.query, then _persist() calls DB.run(UPDATE ...) and drops its promise
\* behind .catch(() => {}): that run() is a call of its own, issued by no one
\* who awaits it, placed right after the getOrCreateToday call.
GetOrCreateTodayCall ==
    /\ Len(calls) + 2 <= MaxCalls
    /\ MicrotaskPending => overlap
    /\ IF _db = None
       THEN /\ calls' = Append(calls,
                  NewCall("getOrCreateToday", "rejected", "NotInitialised",
                          [date |-> today, created |-> FALSE, row |-> None]))
            /\ UNCHANGED <<_db, _dirty, sqltx, lastRowid, puts, writeEpoch>>
       ELSE IF getDay(_db[1], today) # {}
       THEN /\ calls' = Append(calls,
                  NewCall("getOrCreateToday", "returned", "",
                          [date |-> today, created |-> FALSE,
                           row |-> Some(CHOOSE d \in getDay(_db[1], today) : TRUE)]))
            /\ UNCHANGED <<_db, _dirty, sqltx, lastRowid, puts, writeEpoch>>
       ELSE LET cf == CarryForward(_db[1], today)
                ins == Exec(_db[1], InsertDay(today, cf.opening_stock,
                                              cf.unit_price, FALSE), lastRowid)
                stmt == SetUnitPrice(cf.unit_price, today)
                r == RunStart(Me + 1, stmt, Some(ins.db), _dirty, ins.rowid, puts)
            IN /\ _db' = r.db
               /\ _dirty' = r.dirty
               /\ lastRowid' = r.lr
               /\ sqltx' = r.tx
               /\ puts' = r.puts
               /\ writeEpoch' = writeEpoch + 1
               /\ calls' = calls \o
                     << NewCall("getOrCreateToday",
                                IF ins.ok THEN "returned" ELSE "rejected",
                                IF ins.ok THEN "" ELSE "sql",
                                [date |-> today, created |-> ins.ok,
                                 row |-> IF getDay(r.db[1], today) = {} THEN None
                                         ELSE Some(CHOOSE d \in getDay(r.db[1], today) : TRUE)]),
                        [NewCall("run", IF r.ok THEN "awaitPut" ELSE "rejected", r.err,
                                 [stmt |-> stmt, lastId |-> r.rowid, dirty0 |-> _dirty,
                                  db0 |-> _db, ready0 |-> InitReturned])
                           EXCEPT !.nput = IF r.ok THEN 1 ELSE 0] >>
    /\ UNCHANGED <<_SQL, idb, handles, overlap, legacy, today>>

\* The kg, price and comments the sales form hands to addSale for call c.
NewSale(c) == [kg |-> 30, price |-> 150, comments |-> 900 + c]

\* COALESCE(MAX(seq), 0) + 1 over the Sales of Day dayId.
NextSeq(c, dayId) == MaxOf({x.seq : x \in {y \in c.sales : y.day_id = dayId}}) + 1

\* addSale(dayId, {kg, price, comments}) for a Day of the database.
AddSaleCall ==
    /\ CanCall
    /\ _db # None
    /\ \E d \in _db[1].days :
         RunOf(InsertSale(d.id, NextSeq(_db[1], d.id), NewSale(Me).kg,
                          NewSale(Me).price, NewSale(Me).comments))

ResequenceFromZero(rows) == [i \in 1..Len(rows) |-> SetSeq(i - 1, rows[i].id)]
\* rows.forEach((row, i) => tx('UPDATE sales SET seq = ? WHERE id = ?', [i + 1, row.id]))
Resequence(rows) == [i \in 1..Len(rows) |-> SetSeq(i, rows[i].id)]

\* The statements deleteSale's fn hands to tx, on content c.
DeleteSaleFn(c, saleId, dayId) ==
    LET del == Exec(c, DeleteSaleStmt(saleId), 0)
    IN IF ~del.ok THEN <<DeleteSaleStmt(saleId)>>
       ELSE <<DeleteSaleStmt(saleId)>> \o Resequence(getSalesForDay(del.db, dayId))

\* deleteSale(saleId, dayId) for a Sale of the database and its Day.
DeleteSaleCall ==
    /\ CanCall
    /\ _db # None
    /\ \E x \in _db[1].sales : TransactionOf(DeleteSaleFn(_db[1], x.id, x.day_id))

\* ------------------------------------------------- sales specification
\* A Day of date 1 with n Sales of seq 1..n, or no Day at all.
FirstDay(os) == [id |-> 1, date |-> 1, opening_stock |-> os, unit_price |-> 5]
FirstSales(n) ==
    {[id |-> k, day_id |-> 1, seq |-> k, kg |-> 30, price |-> 150, comments |-> 800 + k] :
        k \in 1..n}
SecondDay == [id |-> 2, date |-> 2, opening_stock |-> 50, unit_price |-> 7]
Ledgers ==
    {Seed} \cup {[Seed EXCEPT !.days = {FirstDay(os)}, !.sales = FirstSales(n)] :
                    os \in {100, 20}, n \in 0..MaxSales}
           \cup {[Seed EXCEPT !.days = {FirstDay(100), SecondDay},
                              !.sales = FirstSales(1)]}

InitSales ==
    /\ _db \in {Some(l) : l \in Ledgers} /\ idb = _db
    /\ _SQL = TRUE /\ _dirty = FALSE /\ sqltx = None
    /\ lastRowid = 0 /\ puts = <<>> /\ calls = <<>>
    /\ handles = 1 /\ writeEpoch = 0 /\ overlap = FALSE
    /\ legacy = NoLegacy /\ today = 1

NextSales ==
    \/ AddSaleCall
    \/ DeleteSaleCall
    \/ GetOrCreateTodayCall
    \/ Midnight
    \/ \E c \in Ids : TransactionResume(c)
    \/ \E c \in Ids : PersistResume(c)
    \/ \E c \in Ids : PersistFail(c)

SpecSales == InitSales /\ [][NextSales]_vars

\* ------------------------------------------------ ledger specification
\* A legacy CSV whose second row has no quantity.
CsvGap(date) ==
    [str |-> TRUE,
     lines |-> << <<SNO, Text, Text, Text, Text, Text>>,
                  <<1, 5, 10, date * 10 + 1, 2, 15>>,
                  <<2, 0, 0, date * 10 + 2, 2, 15>>,
                  <<3, 3, 6, date * 10 + 3, 2, 12>> >>]

\* The importer together with the DBSales calls: the legacy store holds
\* today's CSV, or today's live chunks.
LedgerStores ==
    {[daily |-> (MaxDate :> CsvGap(MaxDate)), chunks |-> <<>>, meta |-> None],
     [daily |-> <<>>, chunks |-> LiveChunks,
      meta |-> Some([unitPrice |-> 2, newStock |-> 20])]}

InitLedger ==
    /\ _db \in {Some(Seed),
                Some([Seed EXCEPT !.days = {FirstDay(100)}, !.sales = FirstSales(1)])}
    /\ idb = _db
    /\ _SQL = TRUE /\ _dirty = FALSE /\ sqltx = None
    /\ lastRowid = 0 /\ puts = <<>> /\ calls = <<>>
    /\ handles = 1 /\ writeEpoch = 0 /\ overlap = FALSE
    /\ legacy \in LedgerStores /\ today = MaxDate

NextLedger ==
    \/ MigrateCall
    \/ \E c \in Ids : MigrateKeys(c)
    \/ \E c \in Ids : MigrateItem(c)
    \/ \E c \in Ids : MigrateResume(c)
    \/ \E c \in Ids : MigrateSaveFail(c)
    \/ \E c \in Ids : MigrateMeta(c)
    \/ \E c \in Ids : MigrateChunk(c)
    \/ AddSaleCall
    \/ DeleteSaleCall
    \/ GetOrCreateTodayCall
    \/ \E c \in Ids : TransactionResume(c)
    \/ \E c \in Ids : PersistResume(c)
    \/ \E c \in Ids : PersistFail(c)

SpecLedger == InitLedger /\ [][NextLedger]_vars

\* ------------------------------------------ live chunks specification
\* The importer over stores with live chunks: with or without today's
\* historical key, with or without a Day for today in the database.
ChunkStores ==
    {[daily |-> dl, chunks |-> ch, meta |-> mt] :
        dl \in {<<>>, (MaxDate :> CsvTwo(MaxDate))},
        ch \in {LiveChunks, FreeChunks, IdleChunks},
        mt \in {None, Some([unitPrice |-> 2, newStock |-> 20]),
                Some([unitPrice |-> Text, newStock |-> Text])}}

TodayDay == [id |-> 1, date |-> MaxDate, opening_stock |-> 50, unit_price |-> 7]

InitChunks ==
    /\ _db \in {Some(Seed), Some([Seed EXCEPT !.days = {TodayDay}])}
    /\ idb = _db
    /\ _SQL = TRUE /\ _dirty = FALSE /\ sqltx = None
    /\ lastRowid = 0 /\ puts = <<>> /\ calls = <<>>
    /\ handles = 1 /\ writeEpoch = 0 /\ overlap = FALSE
    /\ legacy \in ChunkStores /\ today = MaxDate

NextChunks ==
    \/ MigrateCall
    \/ \E c \in Ids : MigrateKeys(c)
    \/ \E c \in Ids : MigrateItem(c)
    \/ \E c \in Ids : MigrateResume(c)
    \/ \E c \in Ids : MigrateSaveFail(c)
    \/ \E c \in Ids : MigrateMeta(c)
    \/ \E c \in Ids : MigrateChunk(c)
    \/ Midnight

SpecChunks == InitChunks /\ [][NextChunks]_vars

\* ------------------------------------------ historical keys specification
\* The importer over the legacy stores, on a database that is empty or holds
\* a Day for the first date already.
InitDaily ==
    /\ _db \in {Some(Seed),
                Some([Seed EXCEPT !.days = {FirstDay(100)}, !.sales = FirstSales(1)])}
    /\ idb = _db
    /\ _SQL = TRUE /\ _dirty = FALSE /\ sqltx = None
    /\ lastRowid = 0 /\ puts = <<>> /\ calls = <<>>
    /\ handles = 1 /\ writeEpoch = 0 /\ overlap = FALSE
    /\ legacy \in LegacyStores /\ today = MaxDate

NextDaily ==
    \/ MigrateCall
    \/ \E c \in Ids : MigrateKeys(c)
    \/ \E c \in Ids : MigrateItem(c)
    \/ \E c \in Ids : MigrateResume(c)
    \/ \E c \in Ids : MigrateSaveFail(c)
    \/ \E c \in Ids : MigrateMeta(c)
    \/ \E c \in Ids : MigrateChunk(c)

SpecDaily == InitDaily /\ [][NextDaily]_vars

\* ------------------------------------------ calls inside an open transaction
\* The engine with callers that do not wait for a transaction() they issued
\* before they issue the next call.
InitOverlap ==
    /\ _db = Some(Seed) /\ _SQL = TRUE /\ _dirty = FALSE /\ sqltx = None
    /\ lastRowid = 0 /\ idb = Some(Seed) /\ puts = <<>> /\ calls = <<>>
    /\ handles = 1 /\ writeEpoch = 0 /\ overlap = TRUE
    /\ legacy = NoLegacy /\ today = 1

NextOverlap ==
    \/ RunCall
    \/ TransactionCall
    \/ \E c \in Ids : TransactionResume(c)
    \/ \E c \in Ids : PersistResume(c)
    \/ \E c \in Ids : PersistFail(c)

SpecOverlap == InitOverlap /\ [][NextOverlap]_vars

\* ================================================================ claims

\* C1: when the k-th statement of transaction(fn) throws, the step that
\* rejects the call leaves the in-memory database exactly as it was before
\* the call (none of the call's writes is present), the call has started no
\* storage write, and _dirty has the value it had when the call was made.
TxFailureIsAtomic ==
    [][\A c \in Ids :
         (calls[c].op = "transaction" /\ calls[c].pc = "awaitFn"
            /\ calls[c].loc.failedAt > 0 /\ calls'[c].pc = "rejected")
         => /\ _db' = calls[c].loc.db0
            /\ \A p \in _db'[1].settings : p[2] # Tag(c)
            /\ calls'[c].nput = 0
            /\ \A i \in DOMAIN puts' : puts'[i].owner # c
            /\ _dirty' = calls[c].loc.dirty0]_vars

\* A transaction whose second statement threw after its first had written,
\* called while the flag was set, has been rejected.
TxFailureWitness ==
    \E c \in Ids :
        /\ calls[c].op = "transaction" /\ calls[c].pc = "rejected"
        /\ calls[c].err = "sql" /\ calls[c].loc.failedAt = 2
        /\ calls[c].loc.dirty0

\* persist() p2 was issued after persist() p1 had returned, p1 found the
\* flag set, and no statement changed the database from p1's call to p2's.
ConsecutivePersists(p1, p2) ==
    /\ p1 < p2
    /\ calls[p1].op = "persist" /\ calls[p2].op = "persist"
    /\ calls[p1].loc.dirty0
    /\ calls[p1].pc = "returned"
    /\ p1 \in calls[p2].loc.done0
    /\ calls[p2].loc.epoch0 = calls[p1].loc.epoch0

\* C2: of two consecutive persist() calls with no write in between, the
\* first having found the flag set, the first starts exactly one storage
\* write and the second none.
PersistGating ==
    \A p1, p2 \in Ids :
        ConsecutivePersists(p1, p2)
        => calls[p1].nput = 1 /\ calls[p2].nput = 0 /\ ~calls[p2].loc.dirty0

PersistGatingWitness ==
    \E p1, p2 \in Ids : ConsecutivePersists(p1, p2) /\ calls[p2].pc = "returned"

\* A stored snapshot holds the four required tables.
HoldsRequired(c) ==
    {"company", "days", "sales", "settings"} \subseteq Range(c.tables)

\* C7: an init() that went through the load and returned has kept the
\* stored snapshot as the live database exactly when it holds company,
\* days, sales and settings; otherwise the live database is the seed image
\* and the durable blob holds the seed image.
SchemaGuardDecides ==
    \A c \in Ids :
        (calls[c].op = "init" /\ calls[c].pc = "returned" /\ ~calls[c].loc.early)
        => IF calls[c].loc.saved # None /\ HoldsRequired(calls[c].loc.saved[1])
           THEN _db = calls[c].loc.saved
           ELSE _db = Some(Seed) /\ idb = Some(Seed)

\* init() returned after rejecting a snapshot that lacks only sales.
SchemaGuardWitness ==
    \E c \in Ids :
        /\ calls[c].op = "init" /\ calls[c].pc = "returned"
        /\ calls[c].loc.saved # None
        /\ Range(calls[c].loc.saved[1].tables) = {"company", "days", "settings"}
        /\ _db = Some(Seed)

\* C8: for any number of init() calls, however they interleave, at most one
\* database handle is ever created and made live.
SingleLiveHandle == handles <= 1

\* C9: query(), run() and transaction() issued before any init() call has
\* completed fail with the not-initialised error (and so change nothing).
NotInitialisedBeforeInit ==
    \A c \in Ids :
        (calls[c].op \in {"query", "run", "transaction"} /\ ~calls[c].loc.ready0)
        => calls[c].pc = "rejected" /\ calls[c].err = "NotInitialised"

\* No init() call so far has got past its seed fetch or kept a snapshot.
NoInitPastFetch ==
    \A c \in Ids :
        calls[c].op = "init"
        => \/ calls[c].pc \in {"awaitSql", "awaitLoad", "awaitFetch"}
           \/ calls[c].pc = "rejected" /\ calls[c].err \in {"sqljs", "load", "seed"}

\* C10: an init() whose seed fetch failed has set no handle and started no
\* storage write; as long as no init() call got further, there is no live
\* handle, no storage write, and query/run/transaction fail as not
\* initialised.
SeedFailureLeavesNoHandle ==
    /\ \A c \in Ids :
         (calls[c].op = "init" /\ calls[c].pc = "rejected" /\ calls[c].err = "seed")
         => calls[c].nput = 0 /\ \A i \in DOMAIN puts : puts[i].owner # c
    /\ NoInitPastFetch
       => /\ _db = None
          /\ puts = <<>>
          /\ \A c \in Ids :
               calls[c].op \in {"query", "run", "transaction"}
               => calls[c].pc = "rejected" /\ calls[c].err = "NotInitialised"
                  /\ calls[c].nput = 0

\* The seed fetch of an init() failed, once with nothing stored or with a
\* rejected snapshot, and a run() issued afterwards was turned away.
SeedFailureWitness ==
    \E c, d \in Ids :
        /\ calls[c].op = "init" /\ calls[c].pc = "rejected" /\ calls[c].err = "seed"
        /\ calls[c].loc.saved # None
        /\ c < d /\ calls[d].op = "run" /\ calls[d].err = "NotInitialised"

\* C3: once the migration marker setting equals "1", a Migrate.run() call
\* returns {skipped: true} at once, without a read of the legacy store and
\* without any database or storage write: the Day and Sale rows, the stored
\* snapshot, the writes in flight and the dirty flag are those before the call.
SkipsOnceMarked ==
    [][(/\ Len(calls') = Len(calls) + 1
        /\ calls'[Len(calls')].op = "migrate"
        /\ _db # None
        /\ getSetting(_db[1], MIGRATION_DONE_KEY) = "1")
       => /\ calls'[Len(calls')].pc = "returned"
          /\ calls'[Len(calls')].loc.result = "skipped"
          /\ calls'[Len(calls')].loc.reads = 0
          /\ calls'[Len(calls')].nput = 0
          /\ _db' = _db /\ idb' = idb /\ puts' = puts /\ _dirty' = _dirty]_vars

\* A second run was skipped after a first run that migrated a day.
SkipsOnceMarkedWitness ==
    \E c1, c2 \in Ids :
        /\ c1 < c2
        /\ calls[c1].op = "migrate" /\ calls[c1].pc = "returned"
        /\ calls[c1].loc.result = "summary" /\ calls[c1].loc.migratedDays >= 1
        /\ calls[c2].op = "migrate" /\ calls[c2].pc = "returned"
        /\ calls[c2].loc.result = "skipped"
        /\ _db[1].days # {} /\ _db[1].sales # {}

\* C4: whatever runs were cut short and run again, the database holds no two
\* Days with the same date and no legacy sale record (identified by its
\* comment) more than once.
NoDuplicateImport ==
    _db # None =>
       /\ \A d1, d2 \in _db[1].days : d1.date = d2.date => d1 = d2
       /\ \A s1, s2 \in _db[1].sales : s1.comments = s2.comments => s1 = s2

\* C5: every Migrate.run() call that got past the isDone() check and ended
\* has left the migration marker set to "1".
MarkerSetWhenRunEnds ==
    \A c \in Ids :
        (/\ calls[c].op = "migrate" /\ Done(c)
         /\ ~calls[c].loc.done0 /\ calls[c].err # "NotInitialised")
        => (_db # None /\ getSetting(_db[1], MIGRATION_DONE_KEY) = "1")

\* The legacy store of call c could not be enumerated or had no keys.
NothingToMigrate(r) ==
    r.op = "migrate" /\ (r.loc.keysFailed \/ (r.loc.reads >= 1 /\ NoKeys(legacy)))

\* C6 (as amended): if enumerating the legacy store's keys fails, or the
\* store has no keys, Migrate.run() creates no Day and no Sale and writes the
\* marker "1"; it returns a zero-count result with the marker stored, unless
\* the storage write of the marker fails, in which case it rejects with
\* that failure.
NoKeysIsNoOp ==
    [][\A c \in Ids :
        (NothingToMigrate(calls'[c]) /\ calls'[c] # calls[c]
         /\ calls'[c].pc # "killed")
        => /\ _db'[1].days = _db[1].days /\ _db'[1].sales = _db[1].sales
           /\ getSetting(_db'[1], MIGRATION_DONE_KEY) = "1"
           /\ calls'[c].pc \in {"awaitPut", "returned", "rejected"}
           /\ calls'[c].pc = "returned" =>
                 /\ calls'[c].loc.result \in {"nostore", "empty"}
                 /\ calls'[c].loc.migratedDays = 0
                 /\ calls'[c].loc.migratedSales = 0
                 /\ getSetting(idb'[1], MIGRATION_DONE_KEY) = "1"
           /\ calls'[c].pc = "rejected" => calls'[c].err = "storage"]_vars

\* A run whose key enumeration failed over a store that holds data returned
\* the zero-count result, and the database holds no Day.
NoKeysIsNoOpWitness ==
    \E c \in Ids :
        /\ calls[c].op = "migrate" /\ calls[c].loc.keysFailed
        /\ calls[c].pc = "returned" /\ calls[c].loc.result = "nostore"
        /\ ~NoKeys(legacy) /\ _db[1].days = {}

\* C6 (as stated): a run with nothing to migrate never fails.
NoKeysNeverFails ==
    \A c \in Ids : NothingToMigrate(calls[c]) => calls[c].pc # "rejected"

\* C4, while the calendar date stays what it was at the first run.
NoDuplicateImportSameDate == today = MaxDate => NoDuplicateImport


\* The image img holds what statement stmt writes.
Wrote(img, stmt) ==
    stmt.t = "insDay" /\ \E d \in img.days : d.date = stmt.date

\* C11: when the statement given to run() fails the call is rejected with
\* that failure, _dirty keeps its value and no storage write is started;
\* when it succeeds run() sets _dirty and starts the storage write of an image
\* holding the write, and when run() returns the durable blob holds an image
\* with its write.
RunContract ==
    [][\A c \in DOMAIN calls' :
         calls'[c].op = "run" =>
           IF c \notin Ids
           THEN LET stmt == calls'[c].loc.stmt
                    fails == ~Exec(_db[1], stmt, lastRowid).ok
                IN /\ fails =>
                        /\ calls'[c].pc = "rejected" /\ calls'[c].err = "sql"
                        /\ _dirty' = _dirty /\ puts' = puts
                        /\ _db' = _db /\ idb' = idb
                   /\ ~fails =>
                        /\ calls'[c].pc = "awaitPut"
                        /\ _dirty'
                        /\ puts' = Append(puts, [owner |-> c, image |-> _db'[1]])
                        /\ Wrote(_db'[1], stmt)
           ELSE (calls[c].pc = "awaitPut" /\ calls'[c].pc = "returned")
                   => idb' # None /\ Wrote(idb'[1], calls[c].loc.stmt)]_vars

\* A run() returned after its write, and a later run() whose statement failed
\* was rejected with _dirty still set from a write that could not be stored.
RunContractWitness ==
    \E c1, c2 \in Ids :
        /\ calls[c1].op = "run" /\ calls[c1].pc = "returned"
        /\ calls[c2].op = "run" /\ calls[c2].pc = "rejected"
        /\ calls[c2].err = "sql" /\ calls[c2].loc.dirty0 /\ _dirty

\* Call record r is a deleteSale.
IsDeleteSale(r) == r.op = "transaction" /\ r.loc.fn[1].t = "delSale"

\* C12: for a Day whose Sales have seq 1..n, deleteSale of one of them leaves
\* (at its COMMIT) the other n-1 Sales of the Day, with seq exactly 1..n-1, in
\* the order they had, and otherwise as they were.
DeleteResequences ==
    [][\A c \in Ids :
         (IsDeleteSale(calls[c]) /\ calls[c].pc = "awaitFn"
          /\ calls'[c].pc = "awaitPut")
         => LET before == calls[c].loc.db0[1]
                sid == calls[c].loc.fn[1].id
                gone == CHOOSE x \in before.sales : x.id = sid
                old == {x \in before.sales : x.day_id = gone.day_id}
                new == {x \in _db'[1].sales : x.day_id = gone.day_id}
                n == Cardinality(old)
            IN {x.seq : x \in old} = 1..n
               => /\ {x.id : x \in new} = {x.id : x \in old} \ {sid}
                  /\ Cardinality(new) = n - 1
                  /\ {x.seq : x \in new} = 1..(n - 1)
                  /\ \A a, b \in new : \A a0, b0 \in old :
                        (a0.id = a.id /\ b0.id = b.id /\ a0.seq < b0.seq)
                           => a.seq < b.seq
                  /\ \A a \in new : \E a0 \in old : [a EXCEPT !.seq = a0.seq] = a0]_vars

\* A deleteSale of the first of three Sales returned.
DeleteResequencesWitness ==
    \E c \in Ids :
        /\ IsDeleteSale(calls[c]) /\ calls[c].pc = "returned"
        /\ Cardinality(calls[c].loc.db0[1].sales) = 3
        /\ \E x \in calls[c].loc.db0[1].sales :
              x.id = calls[c].loc.fn[1].id /\ x.seq = 1
        /\ Cardinality(idb[1].sales) = 2

\* No operation is in progress.
Quiescent == \A c \in Ids : calls[c].pc \in {"returned", "rejected", "killed"}

\* C13: whenever no operation is in progress, the seq values of the Sales of
\* each Day are exactly 1..count for that Day.
DenseSeq ==
    Quiescent =>
       \A d \in _db[1].days :
          LET mine == {x \in _db[1].sales : x.day_id = d.id}
          IN /\ {x.seq : x \in mine} = 1..Cardinality(mine)

\* The most recent Day of content c before date (c has one).
Latest(c, date) ==
    CHOOSE d \in c.days :
        d.date < date /\ \A e \in c.days : e.date < date => e.date <= d.date

\* What a getOrCreateToday() call issued in this step did, given the
\* opening_stock a new Day is to have when an earlier Day exists.
TodayStep(expected(_, _)) ==
    LET k == Len(calls) + 1
        r == calls'[k]
        c == _db[1]
    IN (Len(calls') > Len(calls) /\ r.op = "getOrCreateToday" /\ _db # None)
       => IF \E d \in c.days : d.date = today
          THEN /\ _db' = _db /\ puts' = puts /\ Len(calls') = k
               /\ r.pc = "returned" /\ ~r.loc.created
               /\ r.loc.row[1] \in c.days /\ r.loc.row[1].date = today
          ELSE \E d \in _db'[1].days :
                 /\ _db'[1].days = c.days \cup {d} /\ d \notin c.days
                 /\ _db'[1].sales = c.sales
                 /\ d.date = today
                 /\ r.pc = "returned" /\ r.loc.row = Some(d)
                 /\ IF \E e \in c.days : e.date < today
                    THEN /\ d.opening_stock =
                              expected(Latest(c, today).opening_stock,
                                       KgSold(c, Latest(c, today).id))
                         /\ d.unit_price = Latest(c, today).unit_price
                    ELSE d.opening_stock = 0 /\ d.unit_price = 0

Derived(text) ==
    LET rows == SelectSeq(text, LAMBDA l : l # <<>> /\ l[1] # SNO)
        kept == SelectSeq(rows, LAMBDA l : Len(l) >= 4)
        sold == SelectSeq(kept, LAMBDA l : Num(l, 2) > 0)
        priced == SelectSeq(kept, LAMBDA l : Num(l, 5) > 0)
    IN IF rows = <<>> THEN None
       ELSE Some([unitPrice |-> IF priced = <<>> THEN 0
                                ELSE Num(priced[Len(priced)], 5),
                  openingStock |-> IF sold = <<>> THEN 0
                                   ELSE Num(sold[1], 6) + Num(sold[1], 2),
                  sales |-> [i \in 1..Len(sold) |->
                               [seq |-> Num(sold[i], 1), kg |-> Num(sold[i], 2),
                                price |-> Num(sold[i], 3), comments |-> sold[i][4]]]])

NoteNo(img) ==
    IF getSetting(img, "note") = NullV THEN 0
    ELSE CHOOSE c \in 1..(MaxCalls + 1) : Tag(c) = getSetting(img, "note")

\* Image a was exported no later than image b: transactions commit in call
\* order and each overwrites the note; rows are only added.
NotNewer(a, b) == NoteNo(a) <= NoteNo(b) /\ a.days \subseteq b.days

\* The calls whose write was committed, and the last of them.
Committed ==
    {c \in Ids : /\ calls[c].op \in {"run", "transaction"}
                 /\ calls[c].nput > 0}
LastCommitted == MaxOf(Committed)

\* Every call has completed, the call of the last committed write has
\* returned and no query() wrote after it: then the blob is the database.
BlobHoldsLast ==
    (/\ \A c \in Ids : calls[c].pc \in {"returned", "rejected"}
     /\ Committed # {}
     /\ calls[LastCommitted].pc = "returned"
     /\ \A c \in Ids : (calls[c].op = "query" /\ c > LastCommitted)
                          => calls[c].loc.stmt.t = "select")
    => idb = _db

\* C16: with storage writes of several run()/transaction() calls in flight at
\* once, the durable blob only moves from an image to one exported later, and
\* once every call has completed, the last committed write's call having
\* returned, the blob is the database in memory.
BlobInCommitOrder ==
    [][/\ idb' # idb => NotNewer(idb[1], idb'[1])
       /\ BlobHoldsLast']_vars

\* Two transactions had their storage writes in flight at once (the persist()
\* after them was issued before either completed), and all three returned
\* with the second transaction's state in the blob.
BlobInCommitOrderWitness ==
    /\ Len(calls) = 3
    /\ calls[1].op = "transaction" /\ calls[2].op = "transaction"
    /\ calls[3].op = "persist" /\ calls[3].loc.done0 = {}
    /\ \A c \in Ids : calls[c].pc = "returned"
    /\ idb = _db /\ NoteNo(idb[1]) = 2

\* Call c is the run() that _persist() issued for the getOrCreateToday()
\* call before it.
IsDetached(c) ==
    /\ c > 1 /\ calls[c].op = "run" /\ calls[c].loc.stmt.t = "setUnitPrice"
    /\ calls[c - 1].op = "getOrCreateToday" /\ calls[c - 1].loc.created

\* C17: when the storage write of a run(), of a transaction() or of the write
\* that creates today's Day fails, the operation's caller gets that storage
\* failure (not another error) and _dirty stays set.
StorageFailureReported ==
    [][\A c \in Ids :
         (/\ calls[c].op \in {"run", "transaction"}
          /\ calls[c].pc = "awaitPut" /\ calls'[c].pc = "rejected")
         => /\ calls'[c].err = "storage"
            /\ _dirty'
            /\ IsDetached(c) => calls'[c - 1].pc = "rejected"]_vars

\* Every statement of transaction call c's fn succeeds.
WholeTx(c) ==
    \A i \in DOMAIN calls[c].loc.fn : calls[c].loc.fn[i] # BadStmt

\* Image img holds no write of a transaction that has not committed, and no
\* write of a transaction one of whose statements threw.
OnlyCommittedTx(img) ==
    \A c \in Ids :
        (calls[c].op = "transaction" /\ getSetting(img, "note") = Tag(c))
        => /\ WholeTx(c)
           /\ calls[c].pc \in {"awaitPut", "returned", "rejected"}
           /\ calls[c].nput = 1

BlobHoldsWholeTx ==
    /\ idb # None => OnlyCommittedTx(idb[1])
    /\ \A i \in DOMAIN puts : OnlyCommittedTx(puts[i].image)

\* C18: the blob and the images on their way to it hold no part of a
\* transaction that threw and no write of one that has not committed; the
\* step that runs fn starts no storage write and leaves _dirty alone; the
\* COMMIT step sets _dirty and starts exactly one storage write, of the
\* committed content; a transaction that returns has started one write.
TxPersistsOnce ==
    [][/\ (Len(calls') = Len(calls) + 1 /\ calls'[Len(calls')].op = "transaction")
          => puts' = puts /\ _dirty' = _dirty /\ idb' = idb
       /\ \A c \in Ids :
            calls[c].op = "transaction" =>
              /\ (calls[c].pc = "awaitFn" /\ calls'[c].pc = "awaitPut")
                 => /\ _dirty'
                    /\ sqltx' = None
                    /\ puts' = Append(puts, [owner |-> c, image |-> _db'[1]])
                    /\ calls'[c].nput = 1
              /\ (calls[c].pc = "awaitFn" /\ calls'[c].pc # "awaitPut")
                 => puts' = puts /\ calls'[c].nput = 0
              /\ calls'[c].pc = "returned" => calls'[c].nput = 1
       /\ BlobHoldsWholeTx']_vars

\* A transaction of two statements has returned and the blob holds its
\* write, after another transaction's second statement threw.
TxPersistsOnceWitness ==
    \E c, d \in Ids :
        /\ calls[c].op = "transaction" /\ calls[c].pc = "returned"
        /\ Len(calls[c].loc.fn) = 2
        /\ idb # None /\ getSetting(idb[1], "note") = Tag(c)
        /\ d < c /\ calls[d].op = "transaction" /\ calls[d].loc.failedAt = 2

\* C19: a run() or a second transaction() issued while a transaction() is
\* suspended between BEGIN and COMMIT does not interfere with it: when the
\* first transaction resumes it commits if its fn succeeded (its writes are
\* then in the database) and is rolled back with fn's failure otherwise, and
\* the write of a run() that succeeded stays in the database.
OverlapDoesNotInterfere ==
    [][/\ \A c \in Ids :
            (/\ calls[c].op = "transaction"
             /\ calls[c].pc = "awaitFn" /\ calls'[c].pc # "awaitFn")
            => IF calls[c].loc.failedAt = 0
               THEN /\ calls'[c].pc = "awaitPut"
                    /\ getSetting(_db'[1], "note") = Tag(c)
               ELSE calls'[c].pc = "rejected" /\ calls'[c].err = "sql"
       /\ \A d \in DOMAIN calls' :
            (calls'[d].op = "run" /\ calls'[d].pc \in {"awaitPut", "returned"})
            => Wrote(_db'[1], calls'[d].loc.stmt)]_vars

\* The comments of the rows of the live chunks.
ChunkComments ==
    UNION {{LiveChunks[k].rows[i].comments : i \in DOMAIN LiveChunks[k].rows} :
             k \in DOMAIN LiveChunks}

\* The date of the legacy key a Sale with these comments came from (0 when
\* it came from no legacy key): the rows of dailySales_<date> carry
\* date * 10 + row, the rows of the live chunks belong to today.
KeyDate(comments) ==
    IF comments \in ChunkComments THEN today
    ELSE IF \E d \in 1..MaxDate : comments \in (d * 10 + 1)..(d * 10 + 9)
    THEN comments \div 10
    ELSE 0

\* C20: no date has two Days, and every Sale the importer inserted for a
\* legacy key belongs to the Day carrying that key's date, also when another
\* operation created that Day between the importer's existence check and its
\* INSERT OR IGNORE.
ImportedSalesOnOwnDay ==
    _db # None =>
      /\ \A d, e \in _db[1].days : d.date = e.date => d = e
      /\ \A s \in _db[1].sales :
           KeyDate(s.comments) # 0
           => \E d \in _db[1].days :
                 d.id = s.day_id /\ d.date = KeyDate(s.comments)

\* The importer found no Day for a key's date, getOrCreateToday() then created
\* it, and the importer's INSERT OR IGNORE for that date has been ignored,
\* while the connection had inserted rows before.
IgnoredInsertWitness ==
    \E c, g \in Ids :
        /\ calls[c].op = "migrate" /\ calls[c].pc = "awaitPut"
        /\ calls[c].loc.next \in {"dayInserted", "todayInserted"}
        /\ calls[c].loc.lastId = 0
        /\ c < g /\ calls[g].op = "getOrCreateToday" /\ calls[g].loc.created
        /\ _db[1].sales # {}

\* C21: whenever _dirty is false and no storage write is in flight, the
\* durable blob equals the image of the in-memory database (what export()
\* would return: the committed content).
CleanMeansSaved ==
    (_db # None /\ ~_dirty /\ puts = <<>>)
    => idb = Some(Export(Reopened(_db, sqltx)[1]))

\* C22: within one dirty period the storage write is started at most once:
\* a persist() called while the storage write of the current content is
\* still in flight (no write since it was started) starts no other.
PersistOncePerPeriod ==
    [][(/\ Len(calls') = Len(calls) + 1
        /\ calls'[Len(calls')].op = "persist"
        /\ _db # None
        /\ \E i \in DOMAIN puts : puts[i].image = Export(Reopened(_db, sqltx)[1]))
       => puts' = puts]_vars

\* The chunk keys of store st in ascending order of their numeric index.
InIndexOrder(S) ==
    CHOOSE ks \in [1..Cardinality(S) -> S] :
        \A i, j \in 1..Cardinality(S) : i < j => parseInt(ks[i]) < parseInt(ks[j])

\* The rows of the chunk arrays under keys ks[i..], one array after another.
RECURSIVE ChunkRows(_, _, _)
ChunkRows(st, ks, i) ==
    IF i > Len(ks) THEN <<>>
    ELSE (IF st.chunks[ks[i]].arr THEN st.chunks[ks[i]].rows ELSE <<>>)
            \o ChunkRows(st, ks, i + 1)

\* The rows of positive quantity of store st, in index and array order.
ExpectedRows(st) ==
    SelectSeq(ChunkRows(st, InIndexOrder(DOMAIN st.chunks), 1),
              LAMBDA r : r.gas # Text /\ r.gas > 0)

\* The metadata's unit price and stock (0 when absent or no number).
MetaNumber(st, field) ==
    IF st.meta = None \/ st.meta[1][field] = Text THEN 0 ELSE st.meta[1][field]

\* A run that found live chunks, no Day for today and a row of positive
\* quantity has returned: today's Day carries the metadata's stock and unit
\* price and holds exactly those rows as Sales 1..N, with the given amount.
ChunksImported(amount(_, _)) ==
    \A c \in Ids :
        (/\ calls[c].op = "migrate" /\ calls[c].pc = "returned"
         /\ calls[c].loc.todayDate # 0 /\ ~calls[c].loc.todayExists
         /\ ExpectedRows(legacy) # <<>>)
        => LET exp == ExpectedRows(legacy)
               up == MetaNumber(legacy, "unitPrice")
               ds == getDay(_db[1], calls[c].loc.todayDate)
           IN /\ Cardinality(ds) = 1
              /\ \A d \in ds :
                   LET rows == getSalesForDay(_db[1], d.id)
                   IN /\ d.opening_stock = MetaNumber(legacy, "newStock")
                      /\ d.unit_price = up
                      /\ Len(rows) = Len(exp)
                      /\ \A i \in DOMAIN rows :
                           /\ rows[i].seq = i
                           /\ rows[i].kg = exp[i].gas
                           /\ rows[i].comments = exp[i].comments
                           /\ rows[i].price = amount(exp[i], up)

ChunksImportedAsRecorded ==
    ChunksImported(LAMBDA r, up : IF r.price # Text THEN r.price ELSE r.gas * up)

\* C23: with live chunk keys and no Day for today after the historical keys,
\* the importer takes the chunk arrays in ascending numeric index order, keeps
\* the rows of positive quantity and, if any remain, inserts one Day for today
\* with the metadata's stock and unit price and Sales 1..N in that order, the
\* amount being the recorded one, or quantity times unit price when none was
\* recorded; when a Day for today exists, or no row remains, no step of the
\* run from the check on changes a Day or a Sale.
LiveChunksImported ==
    [][/\ \A c \in Ids :
            (/\ calls[c].op = "migrate" /\ calls'[c] # calls[c]
             /\ calls'[c].pc # "killed" /\ calls'[c].loc.todayDate # 0)
            => /\ calls[c].pc = "awaitMeta"
                  => /\ calls'[c].loc.todayDate = today
                     /\ calls'[c].loc.todayExists = (getDay(_db[1], today) # {})
               /\ (calls'[c].loc.todayExists \/ ExpectedRows(legacy) = <<>>)
                  => /\ _db'[1].days = _db[1].days
                     /\ _db'[1].sales = _db[1].sales
       /\ ChunksImportedAsRecorded']_vars

\* The value under historical key k is missing or not text, or yields no
\* valid sale row.
BadKey(k) ==
    LET csv == legacy.daily[k]
    IN \/ ~csv.str
       \/ csv.lines = <<>>
       \/ Derived(csv.lines) = None
       \/ Derived(csv.lines)[1].sales = <<>>

GoodKeys == {k \in DOMAIN legacy.daily : ~BadKey(k)}

\* The keys with a valid sale row whose date had no Day before the first run.
NewKeys == {k \in GoodKeys : getDay(_db[1], k) # {FirstDay(100)}}

\* The first run has returned its summary: every historical key with a valid
\* sale row and no Day before the run has its Day, holding exactly the key's
\* valid rows; the Day that was there is as it was.
GoodKeysMigrated ==
    (/\ 1 \in Ids /\ calls[1].op = "migrate" /\ calls[1].pc = "returned"
     /\ calls[1].loc.result = "summary")
    => /\ \A k \in NewKeys :
            \E d \in _db[1].days :
               /\ d.date = k
               /\ LET rows == getSalesForDay(_db[1], d.id)
                      exp == Derived(legacy.daily[k].lines)[1].sales
                  IN /\ Len(rows) = Len(exp)
                     /\ \A i \in DOMAIN rows :
                          /\ rows[i].seq = exp[i].seq /\ rows[i].kg = exp[i].kg
                          /\ rows[i].price = exp[i].price
                          /\ rows[i].comments = exp[i].comments
       /\ calls[1].loc.migratedDays >= Cardinality(NewKeys)
       /\ FirstDay(100) \in _db[1].days
          => {x \in _db[1].sales : x.day_id = 1} = FirstSales(1)

\* The Days of the historical keys were inserted in ascending date order.
KeyDaysAscending ==
    \A d, e \in _db[1].days :
        (d.date \in NewKeys /\ e.date \in NewKeys /\ d.date < e.date)
        => d.id < e.id

\* C24: a historical key whose value is missing, not text or without a valid
\* sale row produces no Day and no Sale, is not counted, and the run goes on
\* with the next key (or the live chunks, or the marker); every key with a
\* valid sale row and no Day is migrated in the same run, in ascending date
\* order.
BadKeysAreSkipped ==
    [][/\ \A c \in Ids :
            (/\ calls[c].op = "migrate" /\ calls[c].pc = "awaitItem"
             /\ calls'[c].loc.reads > calls[c].loc.reads
             /\ BadKey(calls[c].loc.dailyKeys[calls[c].loc.i]))
            => /\ _db'[1].days = _db[1].days /\ _db'[1].sales = _db[1].sales
               /\ calls'[c].loc.migratedDays = calls[c].loc.migratedDays
               /\ calls'[c].loc.migratedSales = calls[c].loc.migratedSales
               /\ calls'[c].pc \in {"awaitItem", "awaitMeta", "awaitPut"}
               /\ calls'[c].pc = "awaitItem" => calls'[c].loc.i > calls[c].loc.i
               /\ calls'[c].pc = "awaitPut" => calls'[c].loc.next = "retDone"
       /\ GoodKeysMigrated'
       /\ KeyDaysAscending']_vars

\* The first run skipped a key that is not text or has no valid row, migrated
\* a later key and returned; and a run migrated two keys.
BadKeysAreSkippedWitness ==
    /\ 1 \in Ids /\ calls[1].op = "migrate" /\ calls[1].pc = "returned"
    /\ calls[1].loc.result = "summary"
    /\ \/ \E k \in DOMAIN legacy.daily, g \in NewKeys :
             BadKey(k) /\ k < g /\ \E d \in _db[1].days : d.date = g
       \/ /\ Cardinality(NewKeys) >= 2
          /\ \A g \in NewKeys : \E d \in _db[1].days : d.date = g

====
